---- MODULE Spec2Model ----
(***************************************************************************)
(* The log-streaming pipeline of the demo harness: the ActionLogger relay  *)
(* (lib/actionLogger), the scripted route GET /api/act, the fixed-message  *)
(* demo route, and the byte-stream controller they write to.               *)
(*                                                                         *)
(* Text is a sequence of characters (atoms); LF is the line feed.  A chunk *)
(* is the sequence of bytes TextEncoder.encode produces for a text.        *)
(***************************************************************************)
EXTENDS Integers, Sequences, FiniteSets, TLC

VARIABLES
    initialized,   \* ActionLogger.initialized
    logs,          \* ActionLogger.logs : sequence of LogLineAction
    stagehand,     \* ActionLogger.stagehand : "unset" or the engine handle
    controller,    \* ActionLogger.controller : NoChan or a channel id
    encoder,       \* ActionLogger.encoder : "unset" or "TextEncoder"
    chan,          \* per channel id: [state, queue] of its stream controller
    sent,          \* history: <<channel, event>> of every successful enqueue by log()
    last,          \* history: the last relay call, [op, ev, result]
    ncalls,        \* number of relay calls / engine events so far
    retainedBy,    \* history: the call ("log", "error", "warn") that pushed each entry of logs
    lateWrites,    \* history: enqueue attempts made on a channel after controller.close()
    pc,            \* scripted route: position of the start() task
    engine,        \* scripted route: the Stagehand instance of the request
    trace,         \* scripted route, history: steps started and settled, in order
    passed,        \* scripted route, history: events handed to the logging callback
    closeCalls,    \* scripted route: number of controller.close() calls made
    dpc,           \* demo route: position of the start() task
    delays,        \* demo route: number of one-second delays elapsed
    held,          \* a caller holds the array that getLogs() returned
    isLoading,     \* StreamViewer: isLoading
    messages,      \* StreamViewer: messages, the display list
    loops,         \* StreamViewer: per started stream, [pc, route, outcome] of its task
    received,      \* StreamViewer, history: the chunks read since the last trigger
    shownBefore,   \* StreamViewer, history: length of messages when the last trigger fired
    taken,         \* transport: per stream, number of enqueued chunks handed to the client
    requests,      \* two requests to the scripted route: per request, its start() task
    loggers        \* two requests to the scripted route: the ActionLogger instances

vars == <<initialized, logs, stagehand, controller, encoder, chan, sent, last,
          ncalls, retainedBy, lateWrites, pc, engine, trace, passed, closeCalls,
          dpc, delays, held, isLoading, messages, loops, received, shownBefore,
          taken, requests, loggers>>

viewerVars == <<isLoading, messages, loops, received, shownBefore>>
pairVars == <<requests, loggers>>

relayVars == <<initialized, logs, stagehand, controller, encoder>>
histVars == <<sent, last, retainedBy, lateWrites>>
actVars == <<pc, engine, trace, passed, closeCalls>>
demoVars == <<dpc, delays>>
routeVars == <<actVars, demoVars>>

----------------------------------------------------------------------------
(* Bounds of the model *)

MaxCalls == 3      \* relay calls per behaviour (Spec, SpecHistory)
MaxEvents == 2     \* engine log events per request (SpecServer)
MaxChunks == 2     \* chunks read per stream (SpecViewer)

\* the streams the viewer starts, in the order it starts them: a first one
\* and one that follows it
Streams == {1, 2}

NoLoop == [pc |-> "none", route |-> "", outcome |-> ""]

\* StreamViewer as first rendered: useState([]), useState(false)
ViewerInit ==
    /\ isLoading = FALSE
    /\ messages = <<>>
    /\ loops = [i \in Streams |-> NoLoop]
    /\ received = <<>>
    /\ shownBefore = 0

----------------------------------------------------------------------------
(* Text, LogLine events *)

LF == "\n"

\* Two stream controllers exist: the one a relay is bound to and another one.
Chans == {1, 2}
NoChan == 0

Absent == [type |-> "absent", value |-> ""]

\* One auxiliary entry {value, type}; "absent" stands for a key that is not there.
DataEntries ==
    { Absent,
      [type |-> "object", value |-> "{\"a\":1}"],
      [type |-> "object", value |-> "{bad"],
      [type |-> "string", value |-> "{\"a\":1}"] }

ErrorEntries == { Absent, [type |-> "string", value |-> "boom"] }
TraceEntries == { Absent, [type |-> "string", value |-> "at f"] }

\* LogLine.auxiliary: undefined (present = FALSE) or a mapping with the keys
\* error, trace, data (each possibly absent; {} is the mapping with none).
NoAux == [present |-> FALSE, error |-> Absent, trace |-> Absent, data |-> Absent]

Auxiliaries ==
    {NoAux} \cup
    [present : {TRUE}, error : ErrorEntries, trace : TraceEntries, data : DataEntries]

Levels == {"info", "warn", "error"}

\* LogLine: timestamp "" stands for an absent timestamp.
Events ==
    [timestamp : {"", "t1"}, category : {"action"}, message : {"m"},
     level : Levels, auxiliary : Auxiliaries]

\* The events the relay is called with: one per path of logLineToString and
\* parseLogLine (an absent timestamp only on an event without auxiliary data,
\* a trace entry only beside an error entry).
RelayEvents ==
    {e \in Events :
        /\ e.level = "info"
        /\ e.timestamp = "" => ~e.auxiliary.present
        /\ e.auxiliary.trace.type # "absent" => e.auxiliary.error.type # "absent"}

\* JSON.parse on the texts of the model: [ok, value]; ok = FALSE is a SyntaxError.
JSONparse(text) ==
    IF text = "{\"a\":1}" THEN [ok |-> TRUE, value |-> "native{a:1}"]
    ELSE [ok |-> FALSE, value |-> ""]

\* a text of two lines: "x", a line feed, "y"
TwoLines == "x\ny"

\* the text of a field as a template literal puts it into the line: a line
\* feed of the text is a line feed of the line
Raw(text) == IF text = TwoLines THEN <<"x", LF, "y">> ELSE <<text>>

\* the text of a field as JSON.stringify puts it: a line feed is escaped
Escaped(text) == IF text = TwoLines THEN <<"x", "\\n", "y">> ELSE <<text>>

\* JSON.stringify of an auxiliary mapping: one line, never contains a line feed.
JSONstringify(aux) ==
    LET ent(k) == IF aux[k].type = "absent" THEN <<>>
                  ELSE <<k, ":", aux[k].type>> \o Escaped(aux[k].value) \o <<",">>
    IN <<"{">> \o ent("error") \o ent("trace") \o ent("data") \o <<"}">>

\* new Date().toISOString()
Now == "now"

\* logLineToString: [ok, text]; ok = FALSE is the TypeError of reading
\* auxiliary.trace.value when the event has an error entry and no trace entry.
logLineToString(logLine) ==
    LET timestamp == IF logLine.timestamp # "" THEN logLine.timestamp ELSE Now
        aux == logLine.auxiliary
        head == <<timestamp, "::[stagehand:", logLine.category, "] ">>
                    \o Raw(logLine.message)
    IN  IF aux.present /\ aux.error.type # "absent"
        THEN IF aux.trace.type = "absent"
             THEN [ok |-> FALSE, text |-> <<>>]
             ELSE [ok |-> TRUE,
                   text |-> head \o <<LF, " ">> \o Raw(aux.error.value)
                                 \o <<LF, " ">> \o Raw(aux.trace.value)]
        ELSE [ok |-> TRUE,
              text |-> head \o <<" ">> \o (IF aux.present THEN JSONstringify(aux) ELSE <<>>)]

\* Mutant of ParseEntry: the value of an "object" entry is kept as text.
ParseEntryRaw(entry) ==
    [type |-> entry.type, native |-> FALSE, value |-> entry.value]

\* One entry of parsedAuxiliary: [type, native, value]; native = TRUE when the
\* value is the JSON-decoded structure.
ParseEntry(entry) ==
    IF entry.type = "absent" THEN [type |-> "absent", native |-> FALSE, value |-> ""]
    ELSE IF entry.type = "object"
         THEN [type |-> "object", native |-> TRUE, value |-> JSONparse(entry.value).value]
         ELSE [type |-> entry.type, native |-> FALSE, value |-> entry.value]

EntryParses(entry) == entry.type = "object" => JSONparse(entry.value).ok

\* Mutant of parseLogLine: the entry takes the timestamp of the line.
parseLogLineStamped(logLine) ==
    LET aux == logLine.auxiliary
    IN  IF aux.present /\ \E k \in {"error", "trace", "data"} : ~EntryParses(aux[k])
        THEN [ok |-> FALSE, value |-> <<>>]
        ELSE [ok |-> TRUE,
              value |-> [timestamp |-> IF logLine.timestamp # "" THEN logLine.timestamp
                                       ELSE Now,
                         category |-> logLine.category,
                         message |-> logLine.message,
                         level |-> logLine.level,
                         auxiliary |-> NoAux,
                         parsedAuxiliary |->
                             [present |-> aux.present,
                              error |-> ParseEntry(aux.error),
                              trace |-> ParseEntry(aux.trace),
                              data |-> ParseEntry(aux.data)]]]

\* parseLogLine: [ok, value]; ok = FALSE is the SyntaxError of JSON.parse.
parseLogLine(logLine) ==
    LET aux == logLine.auxiliary
    IN  IF aux.present /\ \E k \in {"error", "trace", "data"} : ~EntryParses(aux[k])
        THEN [ok |-> FALSE, value |-> <<>>]
        ELSE [ok |-> TRUE,
              value |-> [timestamp |-> logLine.timestamp,
                         category |-> logLine.category,
                         message |-> logLine.message,
                         level |-> logLine.level,
                         auxiliary |-> NoAux,
                         parsedAuxiliary |->
                             [present |-> aux.present,
                              error |-> ParseEntry(aux.error),
                              trace |-> ParseEntry(aux.trace),
                              data |-> ParseEntry(aux.data)]]]

\* TextEncoder.encode: UTF-8, one byte per ASCII character.
Utf8(c) == <<[byte |-> c]>>

RECURSIVE encode(_)
encode(text) ==
    IF text = <<>> THEN <<>> ELSE Utf8(Head(text)) \o encode(Tail(text))

----------------------------------------------------------------------------
(* The stream controller (ReadableStreamDefaultController) *)

NewChan == [state |-> "readable", queue |-> <<>>]

\* controller.enqueue succeeds only on a readable stream; otherwise TypeError.
CanEnqueue(c) == chan[c].state = "readable"

\* Mutant of Enqueued: the chunk goes to the first controller.
EnqueuedOnFirst(c, chunk) == [chan EXCEPT ![1].queue = Append(@, chunk)]

Enqueued(c, chunk) == [chan EXCEPT ![c].queue = Append(@, chunk)]

\* the two requests to the scripted route, each with its stream controller
Requests == {1, 2}

\* new ActionLogger(): the fields as declared
NewLogger == [initialized |-> FALSE, logs |-> <<>>, controller |-> NoChan,
              encoder |-> "unset"]

\* neither request has arrived
PairInit ==
    /\ requests = [q \in Requests |-> [pc |-> "idle", logger |-> 0, logged |-> 0]]
    /\ loggers = [l \in Requests |-> NewLogger]

----------------------------------------------------------------------------
(* ActionLogger *)

\* placeholder for the event of a call that takes none
NoEvent ==
    [timestamp |-> "", category |-> "", message |-> "", level |-> "",
     auxiliary |-> NoAux]

Call(op, ev, result) == [op |-> op, ev |-> ev, result |-> result]

\* Mutant of init: the relay is left as it was.
initNothing(c) ==
    UNCHANGED <<stagehand, controller, encoder, initialized>>

\* Mutant of init: the flag is set, the references are not.
initFlagOnly(c) ==
    /\ initialized' = TRUE
    /\ UNCHANGED <<stagehand, controller, encoder>>

\* ActionLogger.init
init(c) ==
    /\ stagehand' = "Stagehand"
    /\ controller' = c
    /\ encoder' = "TextEncoder"
    /\ initialized' = TRUE

\* the guard of log(): !this.controller || !this.encoder
NotInitialized == controller = NoChan \/ encoder = "unset"

\* Mutant of logRejected: the event is recorded before the guard throws.
logRejectedAfterRecording(logLine) ==
    /\ last' = Call("log", logLine, "NotInitialized")
    /\ IF parseLogLine(logLine).ok
       THEN /\ logs' = Append(logs, parseLogLine(logLine).value)
            /\ retainedBy' = Append(retainedBy, "log")
       ELSE UNCHANGED <<logs, retainedBy>>
    /\ UNCHANGED <<chan, sent, lateWrites>>

\* log() when the guard fails: throw new Error("ActionLogger not initialized")
logRejected(logLine) ==
    /\ last' = Call("log", logLine, "NotInitialized")
    /\ UNCHANGED <<logs, retainedBy, chan, sent, lateWrites>>

\* Mutant of logAttached: the event is pushed before the line is enqueued.
logAttachedPushFirst(logLine) ==
    LET line == logLineToString(logLine)
        parsed == parseLogLine(logLine)
    IN  /\ line.ok /\ parsed.ok
        /\ logs' = Append(logs, parsed.value)
        /\ retainedBy' = Append(retainedBy, "log")
        /\ UNCHANGED lateWrites
        /\ IF CanEnqueue(controller)
           THEN /\ chan' = Enqueued(controller, encode(line.text \o <<LF>>))
                /\ sent' = Append(sent, <<controller, logLine>>)
                /\ last' = Call("log", logLine, "ok")
           ELSE /\ UNCHANGED <<chan, sent>>
                /\ last' = Call("log", logLine, "EnqueueError")

\* Mutant of logAttached: the line is enqueued without the line feed.
logAttachedNoLineFeed(logLine) ==
    LET line == logLineToString(logLine)
        parsed == parseLogLine(logLine)
    IN  IF ~line.ok
        THEN /\ last' = Call("log", logLine, "TypeError")
             /\ UNCHANGED <<logs, retainedBy, chan, sent, lateWrites>>
        ELSE IF ~CanEnqueue(controller)
        THEN /\ last' = Call("log", logLine, "EnqueueError")
             /\ UNCHANGED <<logs, retainedBy, chan, sent, lateWrites>>
        ELSE /\ chan' = Enqueued(controller, encode(line.text))
             /\ sent' = Append(sent, <<controller, logLine>>)
             /\ UNCHANGED lateWrites
             /\ IF parsed.ok
                THEN /\ logs' = Append(logs, parsed.value)
                     /\ retainedBy' = Append(retainedBy, "log")
                     /\ last' = Call("log", logLine, "ok")
                ELSE /\ UNCHANGED <<logs, retainedBy>>
                     /\ last' = Call("log", logLine, "SyntaxError")

\* log() past the guard: console.log of the line, enqueue of the encoded line,
\* push of the parsed event; each of the three may throw and end the call.
logAttached(logLine) ==
    LET line == logLineToString(logLine)
        parsed == parseLogLine(logLine)
    IN  IF ~line.ok
        THEN /\ last' = Call("log", logLine, "TypeError")
             /\ UNCHANGED <<logs, retainedBy, chan, sent, lateWrites>>
        ELSE IF ~CanEnqueue(controller)
        THEN /\ last' = Call("log", logLine, "EnqueueError")
             /\ lateWrites' = IF chan[controller].state = "closed"
                              THEN lateWrites + 1 ELSE lateWrites
             /\ UNCHANGED <<logs, retainedBy, chan, sent>>
        ELSE /\ chan' = Enqueued(controller, encode(line.text \o <<LF>>))
             /\ sent' = Append(sent, <<controller, logLine>>)
             /\ UNCHANGED lateWrites
             /\ IF parsed.ok
                THEN /\ logs' = Append(logs, parsed.value)
                     /\ retainedBy' = Append(retainedBy, "log")
                     /\ last' = Call("log", logLine, "ok")
                ELSE /\ UNCHANGED <<logs, retainedBy>>
                     /\ last' = Call("log", logLine, "SyntaxError")

\* ActionLogger.log.  Leaves the relay's other fields to the caller.
log(logLine) ==
    IF NotInitialized THEN logRejected(logLine) ELSE logAttached(logLine)

\* ActionLogger.error and ActionLogger.warn (op is their name)
logLocal(op, logLine) ==
    LET line == logLineToString(logLine)
        parsed == parseLogLine(logLine)
    IN  /\ UNCHANGED <<chan, sent, lateWrites>>
        /\ IF ~line.ok
           THEN /\ last' = Call(op, logLine, "TypeError")
                /\ UNCHANGED <<logs, retainedBy>>
           ELSE IF ~parsed.ok
           THEN /\ last' = Call(op, logLine, "SyntaxError")
                /\ UNCHANGED <<logs, retainedBy>>
           ELSE /\ last' = Call(op, logLine, "ok")
                /\ logs' = Append(logs, parsed.value)
                /\ retainedBy' = Append(retainedBy, op)

----------------------------------------------------------------------------
(* Spec: one ActionLogger under any sequence of calls, on channels whose    *)
(* owner may close them.                                                    *)

Init ==
    /\ initialized = FALSE
    /\ logs = <<>>
    /\ stagehand = "unset"
    /\ controller = NoChan
    /\ encoder = "unset"
    /\ chan = [c \in Chans |-> NewChan]
    /\ sent = <<>>
    /\ last = Call("new", NoEvent, "ok")
    /\ ncalls = 0
    /\ retainedBy = <<>>
    /\ lateWrites = 0
    /\ pc = "idle"
    /\ engine = "none"
    /\ trace = <<>>
    /\ passed = <<>>
    /\ closeCalls = 0
    /\ dpc = "idle"
    /\ delays = 0
    /\ held = FALSE
    /\ ViewerInit
    /\ taken = [c \in Chans |-> 0]
    /\ PairInit

CallInit ==
    /\ ncalls < MaxCalls
    /\ \E c \in Chans :
        /\ init(c)
        /\ last' = Call("init", NoEvent, "ok")
    /\ ncalls' = ncalls + 1
    /\ UNCHANGED <<logs, chan, sent, retainedBy, lateWrites>>
    /\ UNCHANGED routeVars
    /\ UNCHANGED <<held, viewerVars, taken, pairVars>>

CallLog ==
    /\ ncalls < MaxCalls
    /\ \E e \in RelayEvents : log(e)
    /\ ncalls' = ncalls + 1
    /\ UNCHANGED <<initialized, stagehand, controller, encoder>>
    /\ UNCHANGED routeVars
    /\ UNCHANGED <<held, viewerVars, taken, pairVars>>

CallError ==
    /\ ncalls < MaxCalls
    /\ \E e \in RelayEvents : logLocal("error", e)
    /\ ncalls' = ncalls + 1
    /\ UNCHANGED <<initialized, stagehand, controller, encoder>>
    /\ UNCHANGED routeVars
    /\ UNCHANGED <<held, viewerVars, taken, pairVars>>

CallWarn ==
    /\ ncalls < MaxCalls
    /\ \E e \in RelayEvents : logLocal("warn", e)
    /\ ncalls' = ncalls + 1
    /\ UNCHANGED <<initialized, stagehand, controller, encoder>>
    /\ UNCHANGED routeVars
    /\ UNCHANGED <<held, viewerVars, taken, pairVars>>

\* the owner of a channel calls controller.close()
CloseChan ==
    /\ \E c \in Chans :
        /\ chan[c].state = "readable"
        /\ chan' = [chan EXCEPT ![c].state = "closed"]
    /\ UNCHANGED <<relayVars, histVars, ncalls>>
    /\ UNCHANGED routeVars
    /\ UNCHANGED <<held, viewerVars, taken, pairVars>>

Next == CallInit \/ CallLog \/ CallError \/ CallWarn \/ CloseChan

Spec == Init /\ [][Next]_vars

----------------------------------------------------------------------------
(* SpecLines: the relay logging events whose texts may hold a line feed *)

\* events with a message of one or two lines; without auxiliary data, with a
\* data entry of two lines, or with an error payload and its trace
LineEvents ==
    {[timestamp |-> "t1", category |-> "action", message |-> msg,
      level |-> "info", auxiliary |-> aux] :
        msg \in {"m", TwoLines},
        aux \in {NoAux,
                 [present |-> TRUE, error |-> Absent, trace |-> Absent,
                  data |-> [type |-> "string", value |-> TwoLines]],
                 [present |-> TRUE, error |-> [type |-> "string", value |-> "boom"],
                  trace |-> [type |-> "string", value |-> "at f"], data |-> Absent]}}

CallLogLine ==
    /\ ncalls < MaxCalls
    /\ \E e \in LineEvents : log(e)
    /\ ncalls' = ncalls + 1
    /\ UNCHANGED <<initialized, stagehand, controller, encoder>>
    /\ UNCHANGED routeVars
    /\ UNCHANGED <<held, viewerVars, taken, pairVars>>

NextLines == CallInit \/ CallLogLine \/ CloseChan

SpecLines == Init /\ [][NextLines]_vars

----------------------------------------------------------------------------
(* SpecHistory: Spec with a caller of getLogs(), which returns this.logs     *)
(* itself: what the caller does to the returned array is done to logs.      *)

\* ActionLogger.getLogs
getLogs == logs

\* the array after the caller has changed it in place: pop() or reverse()
Reverse(seq) == [i \in DOMAIN seq |-> seq[Len(seq) + 1 - i]]
Popped(seq) == SubSeq(seq, 1, Len(seq) - 1)

CallGetLogs ==
    /\ ncalls < MaxCalls
    /\ held' = TRUE
    /\ last' = Call("getLogs", NoEvent, "ok")
    /\ ncalls' = ncalls + 1
    /\ UNCHANGED <<relayVars, chan, sent, retainedBy, lateWrites>>
    /\ UNCHANGED routeVars
    /\ UNCHANGED <<viewerVars, taken, pairVars>>

\* the caller changes the array it got from getLogs(); the array is logs
CallerMutates ==
    /\ ncalls < MaxCalls
    /\ held
    /\ getLogs # <<>>
    /\ \E how \in {"pop", "reverse"} :
        /\ logs' = IF how = "pop" THEN Popped(getLogs) ELSE Reverse(getLogs)
        /\ retainedBy' = IF how = "pop" THEN Popped(retainedBy) ELSE Reverse(retainedBy)
        /\ last' = Call("mutate", NoEvent, how)
    /\ ncalls' = ncalls + 1
    /\ UNCHANGED <<initialized, stagehand, controller, encoder, chan, sent, lateWrites>>
    /\ UNCHANGED routeVars
    /\ UNCHANGED <<held, viewerVars, taken, pairVars>>

NextHistory == Next \/ CallGetLogs \/ CallerMutates

SpecHistory == Init /\ [][NextHistory]_vars

----------------------------------------------------------------------------
(* The scripted route GET /api/act: request 1, stream controller 1 *)

ActChan == 1

\* The events the engine hands to the logging callback: any severity, with
\* no auxiliary data or with a data entry that is not valid JSON.
ActEvents ==
    {e \in Events :
        /\ e.timestamp = "t1"
        /\ e.auxiliary.present =>
              /\ e.auxiliary.error.type = "absent"
              /\ e.auxiliary.trace.type = "absent"
              /\ e.auxiliary.data = [type |-> "object", value |-> "{bad"]}

\* Mutant of NextStep: act and extract in the wrong order.
NextStepSwapped(s) ==
    CASE s = "init" -> "goto"
      [] s = "goto" -> "extract"
      [] s = "extract" -> "act"
      [] s = "act" -> "close"

\* what start() does after awaited step s has settled
NextStep(s) ==
    CASE s = "init" -> "goto"
      [] s = "goto" -> "act"
      [] s = "act" -> "extract"
      [] s = "extract" -> "close"

Started(s) == [step |-> s, what |-> "started"]
Settled(s) == [step |-> s, what |-> "settled"]
Raised(s) == [step |-> s, what |-> "raised"]
Attached == [step |-> "attach", what |-> "done"]
CloseCalled == [step |-> "close", what |-> "called"]

\* start(): new ActionLogger, new TextEncoder, initStagehand up to its await
\* (new Stagehand with the logging callback, logger.init, stagehand.init started)
ActStart ==
    /\ pc = "start"
    /\ init(ActChan)
    /\ last' = Call("init", NoEvent, "ok")
    /\ engine' = "constructed"
    /\ trace' = <<Attached, Started("init")>>
    /\ pc' = "init"
    /\ UNCHANGED <<logs, chan, sent, retainedBy, lateWrites, ncalls, passed, closeCalls>>
    /\ UNCHANGED demoVars
    /\ UNCHANGED <<held, viewerVars, taken, pairVars>>

\* an awaited step fulfils and start() resumes: it starts the next step, or,
\* after the last one, does console.log and controller.close(), which throws a
\* TypeError when the stream is no longer readable (start() then rejects)
StepSettles ==
    /\ pc \in {"init", "goto", "act", "extract"}
    /\ engine' = IF pc = "init" THEN "live" ELSE engine
    /\ IF NextStep(pc) = "close"
       THEN /\ trace' = trace \o <<Settled(pc), CloseCalled>>
            /\ closeCalls' = closeCalls + 1
            /\ IF chan[ActChan].state = "readable"
               THEN /\ chan' = [chan EXCEPT ![ActChan].state = "closed"]
                    /\ pc' = "done"
               ELSE /\ chan' = chan
                    /\ pc' = "rejected"
       ELSE /\ trace' = trace \o <<Settled(pc), Started(NextStep(pc))>>
            /\ pc' = NextStep(pc)
            /\ UNCHANGED <<chan, closeCalls>>
    /\ UNCHANGED <<relayVars, histVars, ncalls, passed>>
    /\ UNCHANGED demoVars
    /\ UNCHANGED <<held, viewerVars, taken, pairVars>>

\* an awaited step rejects: nothing in start() catches it, so start() rejects
\* and the stream, if still readable, is errored by the platform
StepRaises ==
    /\ pc \in {"init", "goto", "act", "extract"}
    /\ trace' = Append(trace, Raised(pc))
    /\ engine' = IF pc = "init" THEN "failed" ELSE engine
    /\ pc' = "rejected"
    /\ chan' = IF chan[ActChan].state = "readable"
               THEN [chan EXCEPT ![ActChan].state = "errored"]
               ELSE chan
    /\ UNCHANGED <<relayVars, histVars, ncalls, passed, closeCalls>>
    /\ UNCHANGED demoVars
    /\ UNCHANGED <<held, viewerVars, taken, pairVars>>

\* the engine is running (initializing, or holding its browser session)
EngineRunning == pc = "init" \/ engine = "live"

\* the engine invokes the logging callback: (logLine) => { logger.log(logLine) }
EngineLogs ==
    /\ EngineRunning
    /\ Len(passed) < MaxEvents
    /\ \E e \in ActEvents :
        /\ passed' = Append(passed, e)
        /\ log(e)
    /\ UNCHANGED <<initialized, stagehand, controller, encoder, ncalls>>
    /\ UNCHANGED <<pc, engine, trace, closeCalls>>
    /\ UNCHANGED demoVars
    /\ UNCHANGED <<held, viewerVars, taken, pairVars>>

\* the client closes the connection: the stream is cancelled; the underlying
\* source has no cancel(), so start() is not told
ClientCancels ==
    /\ pc \notin {"idle", "start"}
    /\ chan[ActChan].state = "readable"
    /\ chan' = [chan EXCEPT ![ActChan].state = "cancelled"]
    /\ UNCHANGED <<relayVars, histVars, ncalls>>
    /\ UNCHANGED routeVars
    /\ UNCHANGED <<held, viewerVars, taken, pairVars>>

----------------------------------------------------------------------------
(* The demo route: request 2, stream controller 2 *)

DemoChan == 2

\* Mutant of DemoMessages: two messages of the list exchanged.
DemoMessagesExchanged ==
    << <<"Hello">>,
       <<"a", " ", "streaming">>,
       <<"This", " ", "is">>,
       <<"response">>,
       <<"from", " ", "Next.js!">> >>

\* the hardcoded messages of the demo route
DemoMessages ==
    << <<"Hello">>,
       <<"This", " ", "is">>,
       <<"a", " ", "streaming">>,
       <<"response">>,
       <<"from", " ", "Next.js!">> >>

\* controller.enqueue(encoder.encode(message + "\n"))
DemoEnqueue(message) == Enqueued(DemoChan, encode(message \o <<LF>>))

\* start(): the first iteration of the loop up to its await
DemoStart ==
    /\ dpc = "start"
    /\ chan' = DemoEnqueue(DemoMessages[1])
    /\ dpc' = "wait"
    /\ UNCHANGED <<relayVars, histVars, ncalls, delays>>
    /\ UNCHANGED actVars
    /\ UNCHANGED <<held, viewerVars, taken, pairVars>>

\* the one-second timer fires: the loop enqueues the next message and waits
\* again, or, after the last message, leaves the loop and closes the stream
DemoTimer ==
    /\ dpc = "wait"
    /\ delays' = delays + 1
    /\ IF delays' < Len(DemoMessages)
       THEN /\ chan' = DemoEnqueue(DemoMessages[delays' + 1])
            /\ dpc' = "wait"
       ELSE /\ chan' = [chan EXCEPT ![DemoChan].state = "closed"]
            /\ dpc' = "done"
    /\ UNCHANGED <<relayVars, histVars, ncalls>>
    /\ UNCHANGED actVars
    /\ UNCHANGED <<held, viewerVars, taken, pairVars>>

----------------------------------------------------------------------------
(* SpecServer: one request to each route, running concurrently *)

InitServer ==
    /\ initialized = FALSE
    /\ logs = <<>>
    /\ stagehand = "unset"
    /\ controller = NoChan
    /\ encoder = "unset"
    /\ chan = [c \in Chans |-> NewChan]
    /\ sent = <<>>
    /\ last = Call("new", NoEvent, "ok")
    /\ ncalls = 0
    /\ retainedBy = <<>>
    /\ lateWrites = 0
    /\ pc = "start"
    /\ engine = "none"
    /\ trace = <<>>
    /\ passed = <<>>
    /\ closeCalls = 0
    /\ dpc = "start"
    /\ delays = 0
    /\ held = FALSE
    /\ ViewerInit
    /\ taken = [c \in Chans |-> 0]
    /\ PairInit

NextServer ==
    \/ ActStart \/ StepSettles \/ StepRaises
    \/ EngineLogs \/ ClientCancels
    \/ DemoStart \/ DemoTimer

SpecServer == InitServer /\ [][NextServer]_vars

\* The event loop runs a ready continuation and a due timer: the demo
\* route's task always goes on.
SpecServerFair == SpecServer /\ WF_vars(DemoStart) /\ WF_vars(DemoTimer)

----------------------------------------------------------------------------
(* SpecPair: two requests to the scripted route, running concurrently.  Each *)
(* GET builds its own stream; start() of each creates its own ActionLogger.  *)

\* what the tasks of SpecPair leave alone
soloVars == <<relayVars, histVars, ncalls, routeVars, held, viewerVars, taken>>

\* the message text of the events of the engine of request q
Msg(q) == IF q = 1 THEN "m1" ELSE "m2"

\* the events the engine of request q hands to its logging callback
PairEvents(q) ==
    {[timestamp |-> "t1", category |-> "action", message |-> Msg(q),
      level |-> "info", auxiliary |-> aux] :
        aux \in {NoAux,
                 [present |-> TRUE, error |-> Absent, trace |-> Absent,
                  data |-> [type |-> "object", value |-> "{bad"]]}}

\* Mutant of LoggerOf: one ActionLogger for all requests.
LoggerShared(q) == 1

\* const logger = new ActionLogger() inside start(): one for each request
LoggerOf(q) == q

\* logger.log(logLine) on the ActionLogger l
logOn(l, logLine) ==
    LET this == loggers[l]
        line == logLineToString(logLine)
        parsed == parseLogLine(logLine)
    IN  IF this.controller = NoChan \/ this.encoder = "unset"
        THEN UNCHANGED <<loggers, chan>>
        ELSE IF ~line.ok \/ ~CanEnqueue(this.controller)
        THEN UNCHANGED <<loggers, chan>>
        ELSE /\ chan' = Enqueued(this.controller, encode(line.text \o <<LF>>))
             /\ loggers' = IF parsed.ok
                           THEN [loggers EXCEPT ![l].logs = Append(@, parsed.value)]
                           ELSE loggers

\* request q arrives: start() up to the await of stagehand.init
PairStart(q) ==
    /\ requests[q].pc = "idle"
    /\ requests' = [requests EXCEPT ![q].pc = "init", ![q].logger = LoggerOf(q)]
    /\ loggers' = [loggers EXCEPT ![LoggerOf(q)].initialized = TRUE,
                                  ![LoggerOf(q)].controller = q,
                                  ![LoggerOf(q)].encoder = "TextEncoder"]
    /\ UNCHANGED <<chan, soloVars>>

\* the engine of request q invokes its logging callback
PairLogs(q) ==
    /\ requests[q].pc \in {"init", "goto", "act", "extract"}
    /\ requests[q].logged < MaxEvents
    /\ \E e \in PairEvents(q) : logOn(requests[q].logger, e)
    /\ requests' = [requests EXCEPT ![q].logged = @ + 1]
    /\ UNCHANGED soloVars

\* an awaited step of request q fulfils; after the last one start() closes
PairSettles(q) ==
    /\ requests[q].pc \in {"init", "goto", "act", "extract"}
    /\ IF NextStep(requests[q].pc) = "close"
       THEN /\ requests' = [requests EXCEPT ![q].pc = "done"]
            /\ chan' = [chan EXCEPT ![q].state = "closed"]
       ELSE /\ requests' = [requests EXCEPT ![q].pc = NextStep(@)]
            /\ UNCHANGED chan
    /\ UNCHANGED <<loggers, soloVars>>

\* an awaited step of request q rejects: start() rejects, the stream errors
PairRaises(q) ==
    /\ requests[q].pc \in {"init", "goto", "act", "extract"}
    /\ requests' = [requests EXCEPT ![q].pc = "rejected"]
    /\ chan' = [chan EXCEPT ![q].state = "errored"]
    /\ UNCHANGED <<loggers, soloVars>>

NextPair ==
    \E q \in Requests :
        \/ PairStart(q)
        \/ PairLogs(q)
        \/ PairSettles(q)
        \/ PairRaises(q)

SpecPair == Init /\ [][NextPair]_vars

----------------------------------------------------------------------------
(* SpecViewer: the StreamViewer component.  A click on an enabled button    *)
(* runs startStreaming or startAct; each await of the handler is a step.    *)

\* characters of the decoded text: "a", LF, NBSP (U+00A0), FFFD (U+FFFD)
NBSP == "nbsp"
FFFD == "fffd"

\* bytes a response body is made of: "a", LF, and C2 A0, the UTF-8 of U+00A0
Bytes == {[byte |-> "a"], [byte |-> LF], [byte |-> "C2"], [byte |-> "A0"]}

\* a chunk handed over by reader.read(): one or two bytes, or three bytes
\* with a line feed in the middle (a chunk that carries two different lines)
ChunkLens == {1, 2}
TwoLineChunks ==
    {<<x, [byte |-> LF], y>> : x, y \in Bytes \ {[byte |-> LF]}} \
        {<<x, [byte |-> LF], x>> : x \in Bytes}
Chunks == UNION {[1..n -> Bytes] : n \in ChunkLens} \cup TwoLineChunks

\* new TextDecoder().decode(value): UTF-8 of this chunk alone, U+FFFD for a
\* lead byte without its continuation and for a continuation without lead
RECURSIVE decode(_)
decode(value) ==
    IF value = <<>> THEN <<>>
    ELSE LET b == Head(value).byte
         IN  IF b = "C2" /\ Len(value) >= 2 /\ value[2].byte = "A0"
             THEN <<NBSP>> \o decode(SubSeq(value, 3, Len(value)))
             ELSE IF b \in {"C2", "A0"}
                  THEN <<FFFD>> \o decode(Tail(value))
                  ELSE <<b>> \o decode(Tail(value))

\* text.split("\n")
RECURSIVE split(_)
split(text) ==
    IF \A i \in DOMAIN text : text[i] # LF THEN <<text>>
    ELSE LET i == CHOOSE k \in DOMAIN text :
                      text[k] = LF /\ \A j \in 1..(k - 1) : text[j] # LF
         IN  <<SubSeq(text, 1, i - 1)>> \o split(SubSeq(text, i + 1, Len(text)))

\* String.prototype.trim: the space, U+00A0 and the line feed are white
\* space, U+FFFD is not
WhiteSpace == {" ", NBSP, LF}

RECURSIVE trimStart(_)
trimStart(msg) ==
    IF msg # <<>> /\ Head(msg) \in WhiteSpace THEN trimStart(Tail(msg)) ELSE msg

RECURSIVE trimEnd(_)
trimEnd(msg) ==
    IF msg # <<>> /\ msg[Len(msg)] \in WhiteSpace
    THEN trimEnd(SubSeq(msg, 1, Len(msg) - 1)) ELSE msg

trim(msg) == trimEnd(trimStart(msg))

\* the filter's callback: msg.trim() is truthy when it is not the empty string
NonBlank(msg) == trim(msg) # <<>>

\* text.split("\n").filter((msg) => msg.trim())
Fragments(text) == SelectSeq(split(text), NonBlank)

\* setMessages([])
NotCleared(prev) == prev
Cleared(prev) == <<>>

\* setMessages((prev) => [...prev, ...fragments])
Prepended(prev, text) == Fragments(text) \o prev
Replaced(prev, text) == Fragments(text)
Appended(prev, text) == prev \o Fragments(text)

\* catch: console.error only, the list is as the read loop left it
CaughtCleared(prev) == <<>>
Caught(prev) == prev

\* finally: setIsLoading(false)
LoadingLeftSet == TRUE
LoadingAfterFinally == FALSE

\* disabled={isLoading} on both buttons
TriggerAlwaysEnabled == TRUE
TriggerEnabled == ~isLoading

Routes == {"/api/streamtest", "/api/act"}

Active(i) == loops[i].pc \in {"fetching", "reading"}

\* the handler of stream i leaves its try block with this outcome
Ends(i, outcome) ==
    /\ loops' = [loops EXCEPT ![i].pc = "ended", ![i].outcome = outcome]
    /\ isLoading' = LoadingAfterFinally

\* startStreaming / startAct up to the await of fetch
Click ==
    /\ TriggerEnabled
    /\ \E route \in Routes, i \in Streams :
        /\ loops[i].pc = "none"
        /\ \A j \in 1..(i - 1) : loops[j].pc # "none"
        /\ loops' = [loops EXCEPT ![i] = [pc |-> "fetching", route |-> route,
                                           outcome |-> ""]]
    /\ isLoading' = TRUE
    /\ shownBefore' = Len(messages)
    /\ messages' = Cleared(messages)
    /\ received' = <<>>
    /\ UNCHANGED <<relayVars, histVars, chan, ncalls, held, taken, pairVars>>
    /\ UNCHANGED routeVars

\* fetch fulfils: response.body?.getReader() gives a reader, or undefined and
\* the handler throws "No reader available"
FetchResolves ==
    /\ \E i \in Streams :
        /\ loops[i].pc = "fetching"
        /\ \/ /\ loops' = [loops EXCEPT ![i].pc = "reading"]
              /\ UNCHANGED <<isLoading, messages>>
           \/ /\ Ends(i, "noreader")
              /\ messages' = Caught(messages)
    /\ UNCHANGED <<received, shownBefore>>
    /\ UNCHANGED <<relayVars, histVars, chan, ncalls, held, taken, pairVars>>
    /\ UNCHANGED routeVars

\* fetch rejects
FetchRejects ==
    /\ \E i \in Streams :
        /\ loops[i].pc = "fetching"
        /\ Ends(i, "fetchfail")
    /\ messages' = Caught(messages)
    /\ UNCHANGED <<received, shownBefore>>
    /\ UNCHANGED <<relayVars, histVars, chan, ncalls, held, taken, pairVars>>
    /\ UNCHANGED routeVars

\* reader.read() fulfils with a chunk
ReadChunk ==
    /\ Len(received) < MaxChunks
    /\ \E i \in Streams, value \in Chunks :
        /\ loops[i].pc = "reading"
        /\ messages' = Appended(messages, decode(value))
        /\ received' = Append(received, value)
    /\ UNCHANGED <<isLoading, loops, shownBefore>>
    /\ UNCHANGED <<relayVars, histVars, chan, ncalls, held, taken, pairVars>>
    /\ UNCHANGED routeVars

\* reader.read() fulfils with done
ReadDone ==
    /\ \E i \in Streams :
        /\ loops[i].pc = "reading"
        /\ Ends(i, "eof")
    /\ UNCHANGED <<messages, received, shownBefore>>
    /\ UNCHANGED <<relayVars, histVars, chan, ncalls, held, taken, pairVars>>
    /\ UNCHANGED routeVars

\* reader.read() rejects
ReadRejects ==
    /\ \E i \in Streams :
        /\ loops[i].pc = "reading"
        /\ Ends(i, "readfail")
    /\ messages' = Caught(messages)
    /\ UNCHANGED <<received, shownBefore>>
    /\ UNCHANGED <<relayVars, histVars, chan, ncalls, held, taken, pairVars>>
    /\ UNCHANGED routeVars

NextViewer ==
    \/ Click
    \/ FetchResolves \/ FetchRejects
    \/ ReadChunk \/ ReadDone \/ ReadRejects

SpecViewer == Init /\ [][NextViewer]_vars

----------------------------------------------------------------------------
(* SpecEndToEnd: the viewer fetching the two routes.  A request reaches its  *)
(* route when the viewer fetches it; the transport hands the chunks of the   *)
(* response stream to the reader whole, possibly several merged into one.    *)

\* consecutive chunks joined into one: the body they carry
RECURSIVE Joined(_)
Joined(chunks) ==
    IF chunks = <<>> THEN <<>> ELSE Head(chunks) \o Joined(Tail(chunks))

\* the stream of the response of a route
RouteChan(route) == IF route = "/api/act" THEN ActChan ELSE DemoChan

\* the route has not been requested yet
Unrequested(route) == IF route = "/api/act" THEN pc = "idle" ELSE dpc = "idle"

\* GET has returned its response: start() has run up to its first await
Responded(route) ==
    IF route = "/api/act" THEN pc \notin {"idle", "start"}
    ELSE dpc \notin {"idle", "start"}

\* Mutant of Handed: only the first of the chunks taken reaches the reader.
HandedFirstOnly(queue, from, n) == queue[from + 1]

\* the value of one reader.read(): chunks from+1 .. from+n of the stream
Handed(queue, from, n) == Joined(SubSeq(queue, from + 1, from + n))

\* Mutant of Waiting: chunks are handed over once the stream is closed.
WaitingForClose(c) == chan[c].state = "closed" /\ taken[c] < Len(chan[c].queue)

\* chunks enqueued on stream c and not yet handed to the reader
Waiting(c) == taken[c] < Len(chan[c].queue)

\* a click on an enabled button, for a route not requested before
ClickRoute ==
    /\ Click
    /\ \A i \in Streams : loops'[i] # loops[i] => Unrequested(loops'[i].route)

\* the request of the fetch reaches the route: GET is invoked
Arrives ==
    /\ \E i \in Streams :
        /\ loops[i].pc = "fetching"
        /\ Unrequested(loops[i].route)
        /\ IF loops[i].route = "/api/act"
           THEN pc' = "start" /\ UNCHANGED dpc
           ELSE dpc' = "start" /\ UNCHANGED pc
    /\ UNCHANGED <<engine, trace, passed, closeCalls, delays>>
    /\ UNCHANGED <<relayVars, histVars, chan, ncalls>>
    /\ UNCHANGED <<held, viewerVars, taken, pairVars>>

\* the response arrives: fetch fulfils and getReader() gives the reader
Responds ==
    /\ \E i \in Streams :
        /\ loops[i].pc = "fetching"
        /\ Responded(loops[i].route)
        /\ loops' = [loops EXCEPT ![i].pc = "reading"]
    /\ UNCHANGED <<isLoading, messages, received, shownBefore>>
    /\ UNCHANGED <<relayVars, histVars, chan, ncalls, held, taken, pairVars>>
    /\ UNCHANGED routeVars

\* reader.read() fulfils with the next chunks of the stream, merged
Delivers ==
    /\ \E i \in Streams :
        /\ loops[i].pc = "reading"
        /\ LET c == RouteChan(loops[i].route)
           IN  /\ Waiting(c)
               /\ \E n \in 1..(Len(chan[c].queue) - taken[c]) :
                    /\ messages' =
                          Appended(messages, decode(Handed(chan[c].queue, taken[c], n)))
                    /\ received' =
                          Append(received, Handed(chan[c].queue, taken[c], n))
                    /\ taken' = [taken EXCEPT ![c] = @ + n]
    /\ UNCHANGED <<isLoading, loops, shownBefore>>
    /\ UNCHANGED <<relayVars, histVars, chan, ncalls, held, pairVars>>
    /\ UNCHANGED routeVars

\* reader.read() fulfils with done: the stream is closed and read to its end
SeesClose ==
    /\ \E i \in Streams :
        /\ loops[i].pc = "reading"
        /\ chan[RouteChan(loops[i].route)].state = "closed"
        /\ ~Waiting(RouteChan(loops[i].route))
        /\ Ends(i, "eof")
    /\ UNCHANGED <<messages, received, shownBefore>>
    /\ UNCHANGED <<relayVars, histVars, chan, ncalls, held, taken, pairVars>>
    /\ UNCHANGED routeVars

\* reader.read() rejects: the stream has errored
SeesError ==
    /\ \E i \in Streams :
        /\ loops[i].pc = "reading"
        /\ chan[RouteChan(loops[i].route)].state = "errored"
        /\ Ends(i, "readfail")
    /\ messages' = Caught(messages)
    /\ UNCHANGED <<received, shownBefore>>
    /\ UNCHANGED <<relayVars, histVars, chan, ncalls, held, taken, pairVars>>
    /\ UNCHANGED routeVars

\* the engine invokes the logging callback with an event of level info (the
\* line of an event does not depend on its level)
EngineLogsInfo ==
    /\ EngineLogs
    /\ passed'[Len(passed')].level = "info"

NextEndToEnd ==
    \/ ClickRoute \/ Arrives \/ Responds
    \/ Delivers \/ SeesClose \/ SeesError
    \/ ActStart \/ StepSettles \/ StepRaises \/ EngineLogsInfo
    \/ DemoStart \/ DemoTimer

SpecEndToEnd == Init /\ [][NextEndToEnd]_vars

----------------------------------------------------------------------------
(* Properties of the relay, checked under Spec *)

\* a step of Spec that is a call of one of the relay's methods named in ops
IsCall(ops) == ncalls' = ncalls + 1 /\ last'.op \in ops

\* entry is the retained copy of event e: it carries e's own fields
IsEntryOf(entry, e) ==
    /\ entry.timestamp = e.timestamp
    /\ entry.category = e.category
    /\ entry.message = e.message
    /\ entry.level = e.level

\* the events written to the output channel, in the order of their enqueue
Written == [i \in DOMAIN sent |-> sent[i][2]]

\* the events es have their retained copies in entries, in the same order
\* (es embeds in entries as a subsequence)
RECURSIVE Embeds(_, _)
Embeds(es, entries) ==
    IF es = <<>> THEN TRUE
    ELSE IF entries = <<>> THEN FALSE
    ELSE IF IsEntryOf(Head(entries), Head(es)) /\ Embeds(Tail(es), Tail(entries))
         THEN TRUE
         ELSE Embeds(es, Tail(entries))

\* C2: on an attached relay that received only log() calls, the retained
\* sequence equals, element for element and in emission order, the sequence
\* of events whose line was enqueued on the controller (one enqueue per event).
\* The code breaks it: log() enqueues the line and then throws in
\* parseLogLine when an "object" entry is not valid JSON.
C2_RetainedEqualsForwarded ==
    (initialized /\ \A i \in DOMAIN retainedBy : retainedBy[i] = "log")
        => /\ Len(logs) = Len(Written)
           /\ \A i \in DOMAIN logs : IsEntryOf(logs[i], Written[i])

\* C3: on an attached relay, under any interleaving of log(), error() and
\* warn() with any events (malformed auxiliary payloads included), every
\* event written to the output channel is also in the retained sequence, in
\* the same relative order.  This is the claim's first half; its second
\* half (nothing is retained that was not written) is not stated here, as
\* error() and warn() retain without writing.  The code breaks the first
\* half: an event whose payload fails to parse is written and not retained.
C3_WrittenAreRetained ==
    initialized => Embeds(Written, logs)

\* C4: a log() call made before init() fails with the not-initialized error,
\* enqueues nothing on any channel and leaves logs unchanged.
C4_LogBeforeInitRejected ==
    [][(~initialized /\ IsCall({"log"}))
          => /\ last'.result = "NotInitialized"
             /\ chan' = chan
             /\ sent' = sent
             /\ logs' = logs]_vars

\* C4 witness: a log() call was rejected on a relay never initialized.
C4_Witness ==
    /\ ~initialized
    /\ last.op = "log"
    /\ last.result = "NotInitialized"
    /\ ncalls > 0

\* C5: error() and warn() never enqueue anything, attached or not, and every
\* call of either appends exactly one entry to logs.  The code breaks the
\* second half: the call throws before the push when the event does not
\* format or parse.
C5_LocalOnlyAlwaysAppends ==
    [][IsCall({"error", "warn"})
          => /\ chan' = chan
             /\ Len(logs') = Len(logs) + 1]_vars

----------------------------------------------------------------------------
(* Properties of the routes, checked under SpecServer and SpecServerFair *)

ActStream == chan[ActChan]
DemoStream == chan[DemoChan]

\* a scripted step has raised
SomeStepRaised == \E i \in DOMAIN trace : trace[i].what = "raised"

\* C1: when a scripted step (initialize, goto, act, extract) raises, the
\* failure is caught and the stream is still closed with controller.close().
\* The code breaks it: start() has no try/catch, so it rejects, close() is
\* never called and the stream ends errored, not closed.
C1_FailureClosesStream ==
    SomeStepRaised => (closeCalls >= 1 /\ ActStream.state = "closed")

\* C6: of the events the engine passes to the logging callback, only those
\* of severity info are written to the stream; warning and error events are
\* recorded in the relay and never written.  The code breaks it: the callback
\* hands every event to log(), whatever its level.
C6_OnlyInfoIsWritten ==
    /\ \A i \in DOMAIN Written : Written[i].level = "info"
    /\ \A i \in DOMAIN passed :
          (passed[i].level # "info" /\ parseLogLine(passed[i]).ok)
              => \E j \in DOMAIN logs : IsEntryOf(logs[j], passed[i])

\* C7: once controller.close() has closed the request's channel, no enqueue
\* is attempted on it, also not for an engine event delivered to the relay
\* afterwards.  The code breaks it: log() enqueues without looking at the
\* channel's state, and the engine outlives the scripted sequence.
C7_NoWriteAfterClose == lateWrites = 0

\* the proper order of the scripted sequence
ScriptOrder ==
    << Attached,
       Started("init"), Settled("init"),
       Started("goto"), Settled("goto"),
       Started("act"), Settled("act"),
       Started("extract"), Settled("extract"),
       CloseCalled >>

\* the trace with a step that raised counted as settled (by rejection)
TraceSettled ==
    [i \in DOMAIN trace |->
        IF trace[i].what = "raised" THEN Settled(trace[i].step) ELSE trace[i]]

\* C9: the engine instance of a request is released by the time the request
\* terminates, whether the sequence succeeds, a step fails or the client
\* closes the connection.  The code breaks it: nothing in the route ever
\* releases the Stagehand instance (there is no stagehand.close()).
C9_EngineReleasedAtEnd ==
    pc \in {"done", "rejected"} => engine # "live"

\* C10: the scripted steps run strictly in the order attach, initialize,
\* goto, act, extract, close: a step starts only when the one before it has
\* settled, nothing starts after a step has raised, and controller.close()
\* is called only after extract has settled.
C10_StepsInOrder ==
    /\ Len(trace) <= Len(ScriptOrder)
    /\ TraceSettled = SubSeq(ScriptOrder, 1, Len(trace))
    /\ \A i \in DOMAIN trace : trace[i].what = "raised" => i = Len(trace)
    /\ closeCalls = Cardinality({i \in DOMAIN trace : trace[i] = CloseCalled})
    /\ closeCalls > 0 =>
          \E i, j \in DOMAIN trace :
              i < j /\ trace[i] = Settled("extract") /\ trace[j] = CloseCalled

\* C10 witness: the whole sequence has run and closed the stream.
C10_Witness ==
    /\ pc = "done"
    /\ closeCalls = 1
    /\ Len(trace) = Len(ScriptOrder)

\* the five lines of the demo route, as the chunks they are enqueued in
DemoExpected ==
    << encode(<<"Hello", LF>>),
       encode(<<"This", " ", "is", LF>>),
       encode(<<"a", " ", "streaming", LF>>),
       encode(<<"response", LF>>),
       encode(<<"from", " ", "Next.js!", LF>>) >>

C8_Safety ==
    /\ Len(DemoStream.queue) <= Len(DemoExpected)
    /\ DemoStream.queue = SubSeq(DemoExpected, 1, Len(DemoStream.queue))
    /\ Len(DemoStream.queue) <= delays + 1
    /\ DemoStream.state \in {"readable", "closed"}
    /\ DemoStream.state = "closed" =>
          /\ DemoStream.queue = DemoExpected
          /\ delays = Len(DemoExpected)

\* C8: every request to the demo route carries exactly the 5 lines "Hello",
\* "This is", "a streaming", "response", "from Next.js!", each terminated by
\* a line feed and in this order, line k+1 enqueued only after the k-th
\* delay; the stream is eventually closed, after the fifth line and its
\* delay, and nothing is enqueued afterwards.
C8_DemoFiveLinesThenClose ==
    /\ []C8_Safety
    /\ <>(DemoStream.state = "closed")
    /\ [][DemoStream.state = "closed" => DemoStream' = DemoStream]_vars

\* C8 witness: the demo stream is closed with its five chunks in it.
C8_Witness ==
    /\ dpc = "done"
    /\ DemoStream.state = "closed"
    /\ Len(DemoStream.queue) = 5

\* the start() task of the scripted request, of the demo request, has ended
ActEnded == pc \in {"done", "rejected"}
DemoEnded == dpc = "done"

C11_ClosedIsTheOnlyEnd ==
    /\ closeCalls <= 1
    /\ ActEnded => ActStream.state \in {"closed", "cancelled"}
    /\ DemoEnded => DemoStream.state = "closed"
    /\ \A c \in Chans : chan[c].state # "errored"

\* C11: per request the stream only moves forward through CREATED,
\* STREAMING, CLOSED: it never leaves CLOSED, controller.close() is called
\* at most once, and CLOSED is the only end the client can observe, on both
\* routes, for successful and for failed runs.  The code breaks it: a failed
\* run of the scripted route ends with the stream errored (the bug of C1).
C11_ForwardToClosedOnly ==
    /\ []C11_ClosedIsTheOnlyEnd
    /\ [][\A c \in Chans : chan[c].state = "closed" => chan'[c] = chan[c]]_vars

\* a write to the scripted request's channel has been rejected
WriteRejected == last.op = "log" /\ last.result = "EnqueueError"

\* C19: in the scripted route, once a write to the output channel has been
\* rejected, the handler aborts the scripted sequence: no later step is
\* started.  (A write is rejected only on a channel that is no longer
\* readable, and such a channel never becomes readable again, so the part
\* of the claim about the channel's end is not what fails.)  The code breaks
\* it: the exception of log() is thrown into the engine's callback
\* invocation, and nothing in start() looks at it, so the sequence goes on
\* whenever the engine goes on.
C19_RejectedWriteAborts ==
    [][WriteRejected =>
          \A i \in DOMAIN trace' : i > Len(trace) => trace'[i].what # "started"]_vars

----------------------------------------------------------------------------
(* Further properties of the relay, checked under Spec and SpecHistory *)

\* the call made by this step is given an event that formats, that has an
\* auxiliary entry that does not parse, and, for log(), a channel to write to
MalformedCall ==
    /\ IsCall({"log", "error", "warn"})
    /\ logLineToString(last'.ev).ok
    /\ ~parseLogLine(last'.ev).ok
    /\ last'.op = "log" => (~NotInitialized /\ CanEnqueue(controller))

\* C18: when an auxiliary entry of an event fails to parse, log(), error()
\* and warn() still append an entry for the event, carrying its other
\* fields, and leave the entries already retained as they are.  The code
\* breaks it: JSON.parse throws inside parseLogLine and the push never runs.
C18_MalformedEventStillRecorded ==
    [][MalformedCall
          => /\ Len(logs') = Len(logs) + 1
             /\ IsEntryOf(logs'[Len(logs')], last'.ev)
             /\ SubSeq(logs', 1, Len(logs)) = logs]_vars

\* C20: what getLogs() returns is a copy or a read-only view: a caller that
\* changes, reorders or truncates it does not change the relay's logs.  The
\* code breaks it: getLogs() returns the logs array itself.
C20_ReturnedLogsAreACopy ==
    [][IsCall({"mutate"}) => logs' = logs]_vars

----------------------------------------------------------------------------
(* Properties of the viewer, checked under SpecViewer *)

SomeActive == \E i \in Streams : Active(i)

\* the stream started last has ended with this outcome
LatestEnded(outcome) ==
    \E i \in Streams :
        /\ loops[i].pc = "ended" /\ loops[i].outcome = outcome
        /\ \A j \in Streams : j > i => loops[j].pc = "none"

\* C12: once the stream a trigger started has terminated (end of stream,
\* rejected read, failed fetch, no reader), loading is false again; when no
\* reader was available no chunk was read and the display list is empty.
C12_LoadingResetAtEnd ==
    /\ ~SomeActive => ~isLoading
    /\ LatestEnded("noreader") => received = <<>> /\ messages = <<>>

C12_Witness ==
    /\ loops[1].outcome = "noreader"
    /\ LatestEnded("readfail")
    /\ ~isLoading

\* the fragments of chunks c1..ck, chunk by chunk in arrival order
RECURSIVE FragmentsOfEach(_)
FragmentsOfEach(chunks) ==
    IF chunks = <<>> THEN <<>>
    ELSE FragmentsOfEach(SubSeq(chunks, 1, Len(chunks) - 1))
             \o SelectSeq(split(decode(chunks[Len(chunks)])), NonBlank)

\* a step in which no trigger starts a stream
SameStream == \A i \in Streams : loops[i].pc = "none" => loops'[i].pc = "none"

IsPrefix(s, t) == Len(s) <= Len(t) /\ SubSeq(t, 1, Len(s)) = s

\* C13: after chunks c1..ck of a stream the display list is the
\* concatenation, in arrival order, of the non-blank fragments of each ci in
\* their order within ci; while the stream goes on the list only grows at
\* its end.
C13_ListIsFragmentsInOrder ==
    /\ [](messages = FragmentsOfEach(received))
    /\ [][SameStream => IsPrefix(messages, messages')]_vars

\* a chunk carrying two lines, the first line not equal to the second, came
\* after a chunk carrying a line
C13_Witness ==
    /\ Len(received) = 2
    /\ Len(messages) = 3
    /\ messages[2] # messages[3]
    /\ messages[1] # messages[2]

\* fragments displayed, fragments of the body split at once, chunk boundaries
Displayed == Len(messages)
AtOnce == Len(SelectSeq(split(decode(Joined(received))), NonBlank))
Boundaries == IF received = <<>> THEN 0 ELSE Len(received) - 1

\* a chunk ends with the lead byte of a character whose continuation byte
\* opens the next chunk
CharacterCut ==
    \E k \in 1..(Len(received) - 1) :
        /\ received[k][Len(received[k])].byte = "C2"
        /\ received[k + 1][1].byte = "A0"

\* C14, as stated: the number of fragments displayed is the number of
\* fragments of the body split at once minus at most the number of chunk
\* boundaries.
C14_AtMostBoundariesFewer ==
    /\ Displayed <= AtOnce
    /\ AtOnce - Displayed <= Boundaries

\* C14, amended: splitting chunk by chunk never loses a fragment, it adds
\* some: at most one for each chunk boundary when no boundary cuts a
\* character, and at most two for each boundary otherwise.
C14_AtMostBoundariesMore ==
    /\ AtOnce <= Displayed
    /\ Displayed <= AtOnce + 2 * Boundaries
    /\ ~CharacterCut => Displayed <= AtOnce + Boundaries

\* a boundary cuts U+00A0: the body is blank, each half is displayed
C14_Witness ==
    /\ Len(received) = 2
    /\ CharacterCut
    /\ AtOnce = 0
    /\ Displayed = 2

\* C15: no stream is started while another is in flight: whenever a read
\* loop of startStreaming or startAct is active loading is true, which
\* disables both triggers, and at most one loop is active.
C15_OneLoopAtATime ==
    /\ Cardinality({i \in Streams : Active(i)}) <= 1
    /\ SomeActive => isLoading

\* a second stream is in flight after the first has ended
C15_Witness ==
    /\ loops[1].pc = "ended"
    /\ loops[2].pc = "reading"
    /\ received # <<>>

\* the fragments of the chunks read from the stream in flight
FragmentsReceived ==
    UNION {{split(decode(received[k]))[n] :
               n \in DOMAIN split(decode(received[k]))} : k \in DOMAIN received}

\* C16: a trigger empties the display list and sets loading before it issues
\* its request, so once a new stream has started every line displayed is a
\* fragment of a chunk of that stream, none is left from the stream before.
C16_TriggerResetsList ==
    /\ [](LET own == FragmentsReceived
            IN  \A n \in DOMAIN messages : messages[n] \in own)
    /\ [][~SameStream => messages' = <<>> /\ isLoading']_vars

\* the second stream displays its own line while the first had left lines
C16_Witness ==
    /\ shownBefore > 0
    /\ loops[2].pc = "reading"
    /\ Len(messages) = 1

\* the step that takes the rejection of reader.read()
ReadFails ==
    \E i \in Streams : loops[i].pc = "reading" /\ loops'[i].outcome = "readfail"

\* C17: when a read rejects after k chunks the display list stays as it was
\* after the k-th chunk; of the viewer's state only loading changes.
C17_FailureKeepsLines ==
    [][ReadFails => messages' = messages /\ received' = received /\ ~isLoading']_vars

\* a read was rejected after two chunks that left lines on display
C17_Witness ==
    /\ LatestEnded("readfail")
    /\ Len(received) = 2
    /\ messages # <<>>

----------------------------------------------------------------------------
(* The line and the retained copy of an event, checked under Spec *)

HasError(e) == e.auxiliary.present /\ e.auxiliary.error.type # "absent"
HasData(e) == e.auxiliary.present /\ e.auxiliary.data.type # "absent"

\* the two templates of the line
LineHead(e) ==
    <<IF e.timestamp # "" THEN e.timestamp ELSE Now,
      "::[stagehand:", e.category, "] ", e.message>>
ErrorFormat(e) ==
    LineHead(e) \o <<LF, " ", e.auxiliary.error.value, LF, " ", e.auxiliary.trace.value>>
DataFormat(e) ==
    LineHead(e) \o <<" ">> \o
        (IF e.auxiliary.present THEN JSONstringify(e.auxiliary) ELSE <<>>)

\* the event of the call made last, when the call formats it first
Formatted == last.op \in {"error", "warn"}

\* C22: for an event that carries auxiliary data and an error payload
\* logLineToString gives the error-format line (message, error message,
\* error trace), never the JSON-suffix line; for an event without an error
\* payload it gives the JSON-suffix line.  The code breaks it: an error
\* payload without a trace entry makes logLineToString throw.
C22_ErrorFormatWins ==
    Formatted =>
        /\ HasError(last.ev) /\ HasData(last.ev) =>
              /\ logLineToString(last.ev).ok
              /\ logLineToString(last.ev).text = ErrorFormat(last.ev)
        /\ ~HasError(last.ev) =>
              /\ logLineToString(last.ev).ok
              /\ logLineToString(last.ev).text = DataFormat(last.ev)

\* the step is a call that has recorded its event
Recorded ==
    /\ IsCall({"log", "error", "warn"})
    /\ Len(logs') = Len(logs) + 1

AuxKeys == {"error", "trace", "data"}

\* C23: in the retained copy of a recorded event an auxiliary entry tagged
\* "object" holds the JSON-decoded value, an entry with another tag holds the
\* raw value unchanged, and the parsed mapping has the keys of the event's
\* auxiliary data.
C23_ObjectEntriesDecoded ==
    [][Recorded =>
          LET e == last'.ev
              copy == logs'[Len(logs')].parsedAuxiliary
          IN  /\ copy.present = e.auxiliary.present
              /\ \A k \in AuxKeys :
                    /\ (copy[k].type = "absent") = (e.auxiliary[k].type = "absent")
                    /\ e.auxiliary[k].type = "object" =>
                          /\ copy[k].native
                          /\ JSONparse(e.auxiliary[k].value).ok
                          /\ copy[k].value = JSONparse(e.auxiliary[k].value).value
                    /\ e.auxiliary[k].type \notin {"object", "absent"} =>
                          /\ ~copy[k].native
                          /\ copy[k].value = e.auxiliary[k].value]_vars

\* an event with an "object" entry and entries of another tag is retained
C23_Witness ==
    /\ logs # <<>>
    /\ logs[Len(logs)].parsedAuxiliary.data.native
    /\ logs[Len(logs)].parsedAuxiliary.error.type = "string"
    /\ last.op \in {"log", "error", "warn"} /\ last.result = "ok"

\* C24: when the channel write inside log() fails (enqueue throws on a
\* channel that is closed or not writable) the call fails and the retained
\* sequence is unchanged: no entry is retained that was not sent.
C24_FailedWriteNotRecorded ==
    [][IsCall({"log"}) /\ ~NotInitialized /\ ~CanEnqueue(controller)
          => /\ last'.result \in {"EnqueueError", "TypeError"}
             /\ logs' = logs
             /\ chan' = chan
             /\ sent' = sent]_vars

\* log() was called on a closed channel after an event had been retained
C24_Witness ==
    /\ last.op = "log" /\ last.result = "EnqueueError"
    /\ Len(logs) = 1

\* C25: in the scripted route the relay is attached before the engine's
\* initialization is started, so no logging callback the engine makes from
\* then on fails with the not-initialized error.
C25_AttachedBeforeEngineStarts ==
    /\ trace # <<>> => trace[1] = Attached /\ trace[2] = Started("init")
    /\ passed # <<>> => ~NotInitialized
    /\ last.op = "log" => last.result # "NotInitialized"

\* the engine has logged during its initialization
C25_Witness ==
    /\ pc = "init"
    /\ passed # <<>>
    /\ last.op = "log" /\ last.result = "ok"

\* C27: a second init with another channel raises no error and rebinds the
\* relay: a log() writes to the channel bound at the time and to no other,
\* and the rebinding leaves the retained sequence as it is.
C27_RebindKeepsLogs ==
    [][/\ IsCall({"init"}) =>
             /\ last'.result = "ok"
             /\ controller' \in Chans
             /\ logs' = logs
       /\ IsCall({"log"}) =>
             /\ controller' = controller
             /\ \A c \in Chans : c # controller => chan'[c] = chan[c]
             /\ sent' # sent => sent'[Len(sent')][1] = controller]_vars

\* the relay wrote to the first channel, was rebound, and kept its entry
C27_Witness ==
    /\ last.op = "init"
    /\ sent # <<>> /\ sent[1][1] # controller
    /\ Len(logs) = 1

\* the step ends the read loop of a stream and leaves no loop running
LastLoopEnds ==
    /\ \E i \in Streams : Active(i) /\ loops'[i].pc = "ended"
    /\ \A i \in Streams : loops'[i].pc \notin {"fetching", "reading"}

\* C28: in the viewer loading = false implies that no read loop is in
\* flight: loading is true from the trigger until the read loop of that
\* stream has ended, and it is reset only by the step that ends the one loop
\* that is running.
C28_IdleMeansNoLoop ==
    /\ [](~isLoading => \A i \in Streams : loops[i].pc \in {"none", "ended"})
    /\ [][isLoading /\ ~isLoading' => LastLoopEnds]_vars

\* the second stream is being read, the first has ended: loading is set
C28_Witness ==
    /\ isLoading
    /\ loops[1].outcome = "eof"
    /\ loops[2].pc = "reading"
    /\ Len(received) = 1

\* C30: with b chunk boundaries the number of fragments of the per-chunk
\* split-and-filter is at least the number of non-blank fragments of the
\* whole body and at most that number plus b.  The code breaks the upper
\* bound: a chunk is decoded on its own, so a character cut by a boundary
\* becomes two replacement characters, each a fragment of its own.
C30_AtLeastWholeAtMostPlusB ==
    /\ Displayed >= AtOnce
    /\ Displayed - AtOnce <= Boundaries

----------------------------------------------------------------------------
(* Two concurrent requests, checked under SpecPair *)

\* the chunk is the line of an event of the engine of request q
LineOf(chunk, q) ==
    /\ \E k \in DOMAIN chunk : chunk[k].byte = Msg(q)
    /\ \A k \in DOMAIN chunk : \A o \in Requests \ {q} : chunk[k].byte # Msg(o)

\* C21: two concurrent requests to the scripted route have each their own
\* relay, encoder and channel: under every interleaving an event of the
\* engine of one request is written to that request's stream only and is
\* retained by that request's relay only.
C21_RequestsShareNothing ==
    \A q \in Requests :
        /\ \A k \in DOMAIN chan[q].queue : LineOf(chan[q].queue[k], q)
        /\ requests[q].logger # 0 =>
              /\ \A o \in Requests \ {q} : requests[o].logger # requests[q].logger
              /\ loggers[requests[q].logger].controller = q
              /\ \A k \in DOMAIN loggers[requests[q].logger].logs :
                    loggers[requests[q].logger].logs[k].message = Msg(q)

\* both engines have logged while both requests were running
C21_Witness ==
    \A q \in Requests :
        /\ requests[q].pc \in {"init", "goto", "act", "extract"}
        /\ Len(chan[q].queue) = 2
        /\ Len(loggers[requests[q].logger].logs) = 1

----------------------------------------------------------------------------
(* The viewer with the routes, checked under SpecEndToEnd *)

\* stream i of the viewer is being read
Reading(i) == loops[i].pc = "reading"

RECURSIVE LinesSent(_)
LinesSent(writes) ==
    IF writes = <<>> THEN <<>>
    ELSE LinesSent(SubSeq(writes, 1, Len(writes) - 1))
            \o SelectSeq(split(logLineToString(writes[Len(writes)][2]).text), NonBlank)

\* stream i was started last and was read to its end
ReadToEnd(i) ==
    /\ loops[i].pc = "ended" /\ loops[i].outcome = "eof"
    /\ \A j \in Streams : j > i => loops[j].pc = "none"

\* C29: when the transport hands the server's chunks over unsplit (merged or
\* not), the display list after end of stream is the sequence of non-blank
\* lines the server enqueued, in order; for the demo route, the five demo
\* messages.
C29_DisplayedIsEnqueued ==
    \A i \in Streams :
        ReadToEnd(i) =>
            /\ messages =
                  SelectSeq(split(decode(Joined(chan[RouteChan(loops[i].route)].queue))),
                            NonBlank)
            /\ loops[i].route = "/api/act" => messages = LinesSent(sent)
            /\ loops[i].route = "/api/streamtest" => messages = DemoMessages

\* the scripted route was read to its end, then the demo route, in three reads
C29_Witness ==
    /\ loops[1].route = "/api/act" /\ loops[1].outcome = "eof"
    /\ Len(sent) = 2
    /\ ReadToEnd(2)
    /\ Len(received) = 3

----------------------------------------------------------------------------
(* The relay's flag and the fields of a retained entry, checked under Spec *)

\* C32: in every state of an ActionLogger initialized is true exactly when
\* controller and encoder are both set, so the guard of log(), which tests
\* the two references, accepts a call exactly when the flag is true; once
\* true the flag does not become false.
C32_FlagIffReferencesSet ==
    /\ [](initialized <=> (controller # NoChan /\ encoder # "unset"))
    /\ [](last.op = "log" => (last.result = "NotInitialized" <=> ~initialized))
    /\ [][initialized => initialized']_vars

\* log() was accepted by an attached relay after init
C32_Witness ==
    /\ initialized
    /\ last.op = "log" /\ last.result = "ok"
    /\ controller \in Chans

\* the first token of the line written last
LastLineStamp == chan[controller].queue[Len(chan[controller].queue)][1].byte

\* C33: recording an event changes its auxiliary part only: the retained
\* entry has the timestamp, category and message of the event (an absent
\* timestamp stays absent, although the line written carries the defaulted
\* one), and its raw auxiliary field is cleared in favour of the parsed
\* mapping.
C33_EntryKeepsOwnFields ==
    [][Recorded =>
          LET e == last'.ev
              entry == logs'[Len(logs')]
          IN  /\ entry.timestamp = e.timestamp
              /\ entry.category = e.category
              /\ entry.message = e.message
              /\ entry.auxiliary = NoAux
              /\ entry.parsedAuxiliary.present = e.auxiliary.present
              /\ (last'.op = "log" /\ e.timestamp = "") =>
                    /\ entry.timestamp = ""
                    /\ LastLineStamp' = Now]_vars

\* an event without timestamp was written with the defaulted timestamp and
\* retained without one
C33_Witness ==
    /\ last.op = "log" /\ last.result = "ok"
    /\ last.ev.timestamp = ""
    /\ logs[Len(logs)].timestamp = ""
    /\ LastLineStamp = Now

----------------------------------------------------------------------------
(* The chunk of one log() call, checked under SpecLines *)

\* log() has returned normally
Forwarded == IsCall({"log"}) /\ last'.result = "ok"

LineFeeds(chunk) == Cardinality({k \in DOMAIN chunk : chunk[k].byte = LF})
HasLineFeed(text) == \E k \in DOMAIN text : text[k] = LF

\* the text that the auxiliary data of an event adds to its line
AuxText(e) == IF e.auxiliary.present THEN JSONstringify(e.auxiliary) ELSE <<>>

====
